---- MODULE Spec2Model ----
(***************************************************************************)
(* countries-app: the users and wishlist REST handlers over the SQLite     *)
(* store (backend/db.js, backend/routes/users.js, backend/routes/          *)
(* wishlist.js).  Every handler issues one SQL statement and answers from  *)
(* the statement's callback; node runs callbacks one at a time and sqlite  *)
(* runs statements one at a time, so a handler is one atomic step.         *)
(***************************************************************************)
EXTENDS Integers, Sequences, FiniteSets, Bags, TLC

(* ---------------------------- bounds ----------------------------------- *)
MaxClock == 1
MaxWishId == 2
MaxUserId == 2
MaxInFlight == 2

(* ------------------------- JavaScript / SQL values --------------------- *)
Undefined == <<"undefined">>
Null == <<"null">>
Num(n) == <<"int", n>>
Text(s) == <<"text", s>>

\* JS truthiness as used by `a || b`
Falsy(v) == v \in {Undefined, Null, Num(0), Text("")}

\* the value passed on without `|| default`
JsOr_NoDefault(v, d) == v

JsOr(v, d) == IF Falsy(v) THEN d ELSE v

\* node-sqlite3 leaves an undefined parameter unbound, which SQLite reads as NULL
BindParameter(v) == IF v = Undefined THEN Null ELSE v

(* ------------------------------ errors --------------------------------- *)
NoErr == [code |-> "OK", message |-> ""]
IoErr == [code |-> "SQLITE_IOERR", message |-> "SQLITE_IOERR: disk I/O error"]
ConstraintErr(what) == [code |-> "SQLITE_CONSTRAINT", message |-> "SQLITE_CONSTRAINT: " \o what]

\* what the environment can do to one statement: nothing, or make it fail
Faults == {NoErr, IoErr}

(* ------------------------------ inputs --------------------------------- *)
ReqUserIds == {1, 2}
Countries == {"FR", "DE"}
CountryName(c) == IF c = "FR" THEN "France" ELSE "Germany"
Usernames == {Undefined, Text("demo"), Text("ann"), Text("bob")}
Emails == {Undefined, Text("demo@example.com"), Text("ann@example.com"), Text("bob@example.com")}

\* <<rating, notes>> of a POST body: each of them supplied or left out
PostFields == {<<Undefined, Undefined>>, <<Num(3), Undefined>>, <<Undefined, Text("n")>>,
               <<Num(3), Text("n")>>}

\* <<rating, notes>> of a PUT body
PutFields == {<<Num(5), Text("m")>>, <<Undefined, Undefined>>}

PostWishlistBodies ==
    { [country_code |-> Text(c), country_name |-> Text(CountryName(c)),
       rating |-> f[1], notes |-> f[2]] : c \in Countries, f \in PostFields }
    \cup { [country_code |-> Text("FR"), country_name |-> Undefined,
            rating |-> Undefined, notes |-> Undefined] }

PutWishlistBodies == { [rating |-> f[1], notes |-> f[2]] : f \in PutFields }

PostUserBodies == [username : Usernames, email : Emails]

(* ------------------------------- state --------------------------------- *)
VARIABLES
    users,      \* rows of table users
    userSeq,    \* sqlite_sequence value of users (AUTOINCREMENT)
    wishlist,   \* rows of table wishlist
    wishSeq,    \* sqlite_sequence value of wishlist
    clock,      \* CURRENT_TIMESTAMP, in seconds
    req,        \* the request handled last
    err,        \* the err the statement's callback got
    res,        \* the responses sent for req, in order
    section,      \* CountriesApp.currentSection
    appWishlist,  \* CountriesApp.wishlist, the page's copy of the rows
    countries,    \* CountriesApp.countries, by country code
    cards,        \* the country cards in #countries-container
    net,          \* the page's requests and the server's answers under way
    lastCallback  \* the fetch continuation the page ran last

page == <<section, appWishlist, countries, cards, net, lastCallback>>

vars == <<users, userSeq, wishlist, wishSeq, clock, req, err, res,
          section, appWishlist, countries, cards, net, lastCallback>>

\* a request of the page, or the answer to it, on its way
Msg(dir, fn, handler, code, ok, rows) ==
    [dir |-> dir, fn |-> fn, handler |-> handler, code |-> code, ok |-> ok, rows |-> rows]

Request(fn, handler, code) == Msg("request", fn, handler, code, TRUE, <<>>)

NoCards == [shown |-> {}, added |-> {}]

NoCallback == [fn |-> "none", handler |-> "none", code |-> "", ok |-> TRUE]

NoReq == [handler |-> "none"]

DemoUser == [id |-> 1, username |-> Text("demo"), email |-> Text("demo@example.com"), created_at |-> 0]

Init ==
    /\ users = {DemoUser}
    /\ userSeq = 1
    /\ wishlist = {}
    /\ wishSeq = 0
    /\ clock = 0
    /\ req = NoReq
    /\ err = NoErr
    /\ res = <<>>
    /\ section = "search"
    /\ appWishlist = <<>>
    /\ countries = {}
    /\ cards = NoCards
    /\ net = SetToBag({Request("loadUserProfile", "GET /api/users/:id", ""),
                       Request("loadAllCountries", "GET /api/countries", "")})
    /\ lastCallback = NoCallback

(* ------------------------------ schema --------------------------------- *)
\* the users table declared with email TEXT NOT NULL, without UNIQUE
UsersConstraintError_EmailNotUnique(username, email) ==
    IF username = Null THEN ConstraintErr("NOT NULL constraint failed: users.username")
    ELSE IF email = Null THEN ConstraintErr("NOT NULL constraint failed: users.email")
    ELSE IF \E u \in users : u.username = username
        THEN ConstraintErr("UNIQUE constraint failed: users.username")
    ELSE NoErr

\* users: username TEXT UNIQUE NOT NULL, email TEXT UNIQUE NOT NULL
UsersConstraintError(username, email) ==
    IF username = Null THEN ConstraintErr("NOT NULL constraint failed: users.username")
    ELSE IF email = Null THEN ConstraintErr("NOT NULL constraint failed: users.email")
    ELSE IF \E u \in users : u.username = username
        THEN ConstraintErr("UNIQUE constraint failed: users.username")
    ELSE IF \E u \in users : u.email = email
        THEN ConstraintErr("UNIQUE constraint failed: users.email")
    ELSE NoErr

\* FOREIGN KEY (user_id) REFERENCES users (id): the connection never runs
\* PRAGMA foreign_keys = ON, so SQLite parses the clause and does not enforce it
ForeignKeyError(uid) == NoErr

\* the wishlist table declared without UNIQUE(user_id, country_code)
WishlistConstraintError_NoUnique(uid, code, name) ==
    IF code = Null THEN ConstraintErr("NOT NULL constraint failed: wishlist.country_code")
    ELSE IF name = Null THEN ConstraintErr("NOT NULL constraint failed: wishlist.country_name")
    ELSE ForeignKeyError(uid)

\* the uniqueness check made against the rows of the other users
WishlistConstraintError_OtherUser(uid, code, name) ==
    IF code = Null THEN ConstraintErr("NOT NULL constraint failed: wishlist.country_code")
    ELSE IF name = Null THEN ConstraintErr("NOT NULL constraint failed: wishlist.country_name")
    ELSE IF \E r \in wishlist : r.user_id # uid /\ r.country_code = code
        THEN ConstraintErr("UNIQUE constraint failed: wishlist.user_id, wishlist.country_code")
    ELSE ForeignKeyError(uid)

\* wishlist: country_code, country_name NOT NULL; UNIQUE(user_id, country_code)
WishlistConstraintError(uid, code, name) ==
    IF code = Null THEN ConstraintErr("NOT NULL constraint failed: wishlist.country_code")
    ELSE IF name = Null THEN ConstraintErr("NOT NULL constraint failed: wishlist.country_name")
    ELSE IF \E r \in wishlist : r.user_id = uid /\ r.country_code = code
        THEN ConstraintErr("UNIQUE constraint failed: wishlist.user_id, wishlist.country_code")
    ELSE ForeignKeyError(uid)

(* ------------------------------ queries -------------------------------- *)
\* WHERE user_id = ?, the country code left out of the condition
Matching_AnyCountry(uid, code) == { r \in wishlist : r.user_id = uid }

\* WHERE country_code = ?, the user id left out of the condition
Matching_AnyUser(uid, code) == { r \in wishlist : r.country_code = Text(code) }

\* WHERE user_id = ? AND country_code = ?
Matching(uid, code) == { r \in wishlist : r.user_id = uid /\ r.country_code = Text(code) }

\* WHERE user_id = ?
RowsOf(uid) == { r \in wishlist : r.user_id = uid }

Orderings(S) ==
    { s \in [1..Cardinality(S) -> S] : \A i, j \in 1..Cardinality(S) : i # j => s[i] # s[j] }

\* ORDER BY added_date (ascending, the default direction)
OrderByAddedDateDesc_Asc(S) ==
    { s \in Orderings(S) : \A i, j \in 1..Len(s) : i < j => s[i].added_date <= s[j].added_date }

\* ORDER BY added_date DESC: rows with equal added_date come in any order
OrderByAddedDateDesc(S) ==
    { s \in Orderings(S) : \A i, j \in 1..Len(s) : i < j => s[i].added_date >= s[j].added_date }

\* INSERT INTO wishlist (user_id, country_code, country_name, rating, notes)
InsertWishlist(id, uid, code, name, rating, notes) ==
    wishlist \cup {[id |-> id, user_id |-> uid, country_code |-> code, country_name |-> name,
                    rating |-> rating, notes |-> notes, added_date |-> clock]}

\* UPDATE wishlist SET rating = ?, notes = ? WHERE user_id = ? AND country_code = ?
UpdateWishlist(rating, notes, uid, code) ==
    (wishlist \ Matching(uid, code))
        \cup { [r EXCEPT !.rating = rating, !.notes = notes] : r \in Matching(uid, code) }

\* a DELETE that removes nothing
DeleteFromWishlist_Nothing(uid, code) == wishlist

\* DELETE FROM wishlist WHERE user_id = ? AND country_code = ?
DeleteFromWishlist(uid, code) == wishlist \ Matching(uid, code)

\* INSERT INTO users (username, email)
InsertUser(id, username, email) ==
    users \cup {[id |-> id, username |-> username, email |-> email, created_at |-> clock]}

(* ------------------------- callbacks: the answers ---------------------- *)
Answer(status, body) == [status |-> status, body |-> body]

EmptyObject == <<>>

\* (err, rows) => ... of router.get('/:userId')
GetWishlistAnswer(e, rows) ==
    IF e # NoErr THEN <<Answer(500, [error |-> e.message])>>
    ELSE <<Answer(200, rows)>>

\* function(err) of router.post('/:userId')
PostWishlistAnswer(e, lastID, uid, b) ==
    IF e # NoErr THEN <<Answer(400, [error |-> e.message])>>
    ELSE <<Answer(200, [id |-> lastID, user_id |-> uid, country_code |-> b.country_code,
                        country_name |-> b.country_name,
                        rating |-> JsOr(b.rating, Num(0)), notes |-> JsOr(b.notes, Text(""))])>>

\* function(err) of router.put('/:userId/:countryCode')
PutWishlistAnswer(e, changes) ==
    IF e # NoErr THEN <<Answer(400, [error |-> e.message])>>
    ELSE <<Answer(200, [updated |-> changes])>>

\* a delete handler that reports a pair without a row as not found
DeleteWishlistAnswer_NotFound(e, changes) ==
    IF e # NoErr THEN <<Answer(400, [error |-> e.message])>>
    ELSE IF changes = 0 THEN <<Answer(404, [error |-> "not found"])>>
    ELSE <<Answer(200, [deleted |-> changes])>>

\* function(err) of router.delete('/:userId/:countryCode')
DeleteWishlistAnswer(e, changes) ==
    IF e # NoErr THEN <<Answer(400, [error |-> e.message])>>
    ELSE <<Answer(200, [deleted |-> changes])>>

\* a handler that reports an unknown id as not found
GetUserAnswer_NotFound(e, row) ==
    IF e # NoErr THEN <<Answer(500, [error |-> e.message])>>
    ELSE IF row = {} THEN <<Answer(404, [error |-> "not found"])>>
    ELSE <<Answer(200, CHOOSE u \in row : TRUE)>>

\* (err, row) => ... of users router.get('/:id')
GetUserAnswer(e, row) ==
    IF e # NoErr THEN <<Answer(500, [error |-> e.message])>>
    ELSE <<Answer(200, IF row = {} THEN EmptyObject ELSE CHOOSE u \in row : TRUE)>>

\* the callback without `return` in its error branch: it answers twice
PostUserAnswer_NoReturn(e, lastID, b) ==
    IF e # NoErr
      THEN <<Answer(400, [error |-> e.message]),
             Answer(200, [id |-> lastID, username |-> b.username, email |-> b.email])>>
      ELSE <<Answer(200, [id |-> lastID, username |-> b.username, email |-> b.email])>>

\* function(err) of users router.post('/')
PostUserAnswer(e, lastID, b) ==
    IF e # NoErr THEN <<Answer(400, [error |-> e.message])>>
    ELSE <<Answer(200, [id |-> lastID, username |-> b.username, email |-> b.email])>>

(* ------------------------------ handlers ------------------------------- *)
\* router.get('/:userId')
GetWishlist ==
    \E uid \in ReqUserIds, fault \in Faults :
        /\ req' = [handler |-> "GET /api/wishlist/:userId", userId |-> uid]
        /\ err' = fault
        /\ \E rows \in OrderByAddedDateDesc(RowsOf(uid)) : res' = GetWishlistAnswer(fault, rows)
        /\ UNCHANGED <<users, userSeq, wishlist, wishSeq, clock>>

\* router.post('/:userId')
PostWishlist ==
    \E uid \in ReqUserIds, b \in PostWishlistBodies, fault \in Faults :
        LET code == BindParameter(b.country_code)
            name == BindParameter(b.country_name)
            e == IF fault # NoErr THEN fault ELSE WishlistConstraintError(uid, code, name)
            lastID == wishSeq + 1
        IN  /\ req' = [handler |-> "POST /api/wishlist/:userId", userId |-> uid, body |-> b]
            /\ err' = e
            /\ IF e # NoErr
                 THEN UNCHANGED <<wishlist, wishSeq>>
                 ELSE /\ wishSeq < MaxWishId
                      /\ wishlist' = InsertWishlist(lastID, uid, code, name,
                                        JsOr(b.rating, Num(0)), JsOr(b.notes, Text("")))
                      /\ wishSeq' = lastID
            /\ res' = PostWishlistAnswer(e, lastID, uid, b)
            /\ UNCHANGED <<users, userSeq, clock>>

\* router.put('/:userId/:countryCode')
PutWishlist ==
    \E uid \in ReqUserIds, c \in Countries, b \in PutWishlistBodies, fault \in Faults :
        /\ req' = [handler |-> "PUT /api/wishlist/:userId/:countryCode",
                   userId |-> uid, countryCode |-> c, body |-> b]
        /\ err' = fault
        /\ IF fault # NoErr
             THEN UNCHANGED wishlist
             ELSE wishlist' = UpdateWishlist(BindParameter(b.rating), BindParameter(b.notes), uid, c)
        /\ res' = PutWishlistAnswer(fault, Cardinality(Matching(uid, c)))
        /\ UNCHANGED <<users, userSeq, wishSeq, clock>>

\* router.delete('/:userId/:countryCode')
DeleteWishlist ==
    \E uid \in ReqUserIds, c \in Countries, fault \in Faults :
        /\ req' = [handler |-> "DELETE /api/wishlist/:userId/:countryCode",
                   userId |-> uid, countryCode |-> c]
        /\ err' = fault
        /\ IF fault # NoErr
             THEN UNCHANGED wishlist
             ELSE wishlist' = DeleteFromWishlist(uid, c)
        /\ res' = DeleteWishlistAnswer(fault, Cardinality(Matching(uid, c)))
        /\ UNCHANGED <<users, userSeq, wishSeq, clock>>

\* users router.get('/:id')
GetUser ==
    \E id \in ReqUserIds, fault \in Faults :
        /\ req' = [handler |-> "GET /api/users/:id", id |-> id]
        /\ err' = fault
        /\ res' = GetUserAnswer(fault, { u \in users : u.id = id })
        /\ UNCHANGED <<users, userSeq, wishlist, wishSeq, clock>>

\* users router.post('/')
PostUser ==
    \E b \in PostUserBodies, fault \in Faults :
        LET username == BindParameter(b.username)
            email == BindParameter(b.email)
            e == IF fault # NoErr THEN fault ELSE UsersConstraintError(username, email)
            lastID == userSeq + 1
        IN  /\ req' = [handler |-> "POST /api/users", body |-> b]
            /\ err' = e
            /\ IF e # NoErr
                 THEN UNCHANGED <<users, userSeq>>
                 ELSE /\ userSeq < MaxUserId
                      /\ users' = InsertUser(lastID, username, email)
                      /\ userSeq' = lastID
            /\ res' = PostUserAnswer(e, lastID, b)
            /\ UNCHANGED <<wishlist, wishSeq, clock>>

\* a second of wall-clock time passes
Tick ==
    /\ clock < MaxClock
    /\ clock' = clock + 1
    /\ UNCHANGED <<users, userSeq, wishlist, wishSeq, req, err, res>>
    /\ UNCHANGED page

\* the whole server
Next ==
    \/ GetWishlist /\ UNCHANGED page
    \/ PostWishlist /\ UNCHANGED page
    \/ PutWishlist /\ UNCHANGED page
    \/ DeleteWishlist /\ UNCHANGED page
    \/ GetUser /\ UNCHANGED page
    \/ PostUser /\ UNCHANGED page
    \/ Tick

Spec == Init /\ [][Next]_vars

\* the request handled last is addressed to the demo user, as every wishlist
\* request of the shipped page is (currentUser = { id: 1 })
ToDemo == req.userId = DemoUser.id

\* the wishlist router, its requests addressed to the demo user
NextWishlist ==
    \/ GetWishlist /\ ToDemo' /\ UNCHANGED page
    \/ PostWishlist /\ ToDemo' /\ UNCHANGED page
    \/ PutWishlist /\ ToDemo' /\ UNCHANGED page
    \/ DeleteWishlist /\ ToDemo' /\ UNCHANGED page
    \/ Tick

SpecWishlist == Init /\ [][NextWishlist]_vars

\* the request handled last names no country but France
AboutFrance ==
    IF req.handler = "POST /api/wishlist/:userId" THEN req.body.country_code = Text("FR")
    ELSE IF req.handler = "GET /api/wishlist/:userId" THEN TRUE
    ELSE req.countryCode = "FR"

\* the wishlist router within one second, its requests addressed to any user id
\* and all about one country
NextOwners ==
    \/ GetWishlist /\ UNCHANGED page
    \/ PostWishlist /\ AboutFrance' /\ UNCHANGED page
    \/ PutWishlist /\ AboutFrance' /\ UNCHANGED page
    \/ DeleteWishlist /\ AboutFrance' /\ UNCHANGED page

SpecOwners == Init /\ [][NextOwners]_vars

\* the users router alone
NextUsers ==
    \/ GetUser /\ UNCHANGED page
    \/ PostUser /\ UNCHANGED page
    \/ Tick

SpecUsers == Init /\ [][NextUsers]_vars

\* both routers within one second, the wishlist requests addressed to the demo user
NextHandlers ==
    \/ GetWishlist /\ ToDemo' /\ UNCHANGED page
    \/ PostWishlist /\ ToDemo' /\ UNCHANGED page
    \/ PutWishlist /\ ToDemo' /\ UNCHANGED page
    \/ DeleteWishlist /\ ToDemo' /\ UNCHANGED page
    \/ GetUser /\ UNCHANGED page
    \/ PostUser /\ UNCHANGED page

SpecHandlers == Init /\ [][NextHandlers]_vars

TypeOK ==
    /\ userSeq \in 1..MaxUserId
    /\ wishSeq \in 0..MaxWishId
    /\ clock \in 0..MaxClock
    /\ Len(res) <= 1

\* the step is one of handler h (Tick alone moves the clock, and answers nothing)
Handled(h) == req'.handler = h /\ clock' = clock

(* ------------------------------ the claims ----------------------------- *)
POST_WISHLIST == "POST /api/wishlist/:userId"
PUT_WISHLIST == "PUT /api/wishlist/:userId/:countryCode"
DELETE_WISHLIST == "DELETE /api/wishlist/:userId/:countryCode"
GET_WISHLIST == "GET /api/wishlist/:userId"
GET_USER == "GET /api/users/:id"
POST_USER == "POST /api/users"

UniqueWishlistMessage ==
    "SQLITE_CONSTRAINT: UNIQUE constraint failed: wishlist.user_id, wishlist.country_code"

HasRow(table, uid, code) == \E r \in table : r.user_id = uid /\ r.country_code = code

\* C1: a POST /api/wishlist/:userId for a (user id, country code) pair that
\* already has a row is answered once, with status 400 and the database's
\* message as the error, and the wishlist table after it is the table before it.
C1_DuplicatePostRejected ==
    [][ (Handled(POST_WISHLIST) /\ HasRow(wishlist, req'.userId, req'.body.country_code))
            => /\ Len(res') = 1
               /\ res'[1].status = 400
               /\ err' # NoErr
               /\ res'[1].body = [error |-> err'.message]
               /\ wishlist' = wishlist ]_vars

\* a duplicate POST has been rejected by the uniqueness constraint
C1_Witness ==
    /\ req.handler = POST_WISHLIST
    /\ HasRow(wishlist, req.userId, req.body.country_code)
    /\ res = <<Answer(400, [error |-> UniqueWishlistMessage])>>

\* C2: in every reachable state the wishlist table holds at most one row for
\* each (user id, country code) pair, whatever POST, PUT and DELETE requests
\* were handled before.
C2_OneRowPerPair ==
    \A r1, r2 \in wishlist :
        (r1.user_id = r2.user_id /\ r1.country_code = r2.country_code) => r1 = r2

\* a POST has just stored a second row, for another pair
C2_Witness ==
    /\ Cardinality(wishlist) = 2
    /\ req.handler = POST_WISHLIST
    /\ res[1].status = 200

\* C3: every wishlist row is owned by the id of an existing user row.
\* The schema declares the foreign key, but the connection never switches
\* foreign-key enforcement on, so a POST for an unknown user id stores a row.
C3_OwnerExists ==
    \A r \in wishlist : \E u \in users : u.id = r.user_id

\* C4: a DELETE for a (user, country) pair without a row, when the statement
\* itself does not fail, is answered 200 with {deleted: 0} and leaves the
\* wishlist table unchanged.
C4_DeleteMissingIsNoError ==
    [][ (/\ Handled(DELETE_WISHLIST)
         /\ ~HasRow(wishlist, req'.userId, Text(req'.countryCode))
         /\ err' = NoErr)
            => /\ res' = <<Answer(200, [deleted |-> 0])>>
               /\ wishlist' = wishlist ]_vars

\* a DELETE of a pair without a row has been answered, next to a stored row
C4_Witness ==
    /\ req.handler = DELETE_WISHLIST
    /\ res = <<Answer(200, [deleted |-> 0])>>
    /\ wishlist # {}

\* a GET of a wishlist has been answered with rows
GetAnswered == req.handler = GET_WISHLIST /\ res # <<>> /\ res[1].status = 200

\* the rows of the answer are exactly the rows the user owns, by non-increasing added date
OwnRowsNewestFirst ==
    LET rows == res[1].body
    IN  /\ Len(rows) = Cardinality(RowsOf(req.userId))
        /\ { rows[i] : i \in 1..Len(rows) } = RowsOf(req.userId)
        /\ \A i, j \in 1..Len(rows) : i < j => rows[i].added_date >= rows[j].added_date

\* C5 as stated: GET /api/wishlist/:userId answers with exactly the user's rows
\* by non-increasing added date, and an item created by a later POST (the
\* greater AUTOINCREMENT id) always comes before one created by an earlier POST.
C5_LaterPostFirst ==
    GetAnswered =>
        /\ OwnRowsNewestFirst
        /\ \A i, j \in 1..Len(res[1].body) :
               res[1].body[j].id < res[1].body[i].id => i < j

\* C5 amended: GET /api/wishlist/:userId answers with exactly the user's rows
\* by non-increasing added date; an item created by a later POST comes before
\* one created by an earlier POST whenever its added date is the later one,
\* that is, when the two were not added within the same second.
C5_LaterSecondFirst ==
    GetAnswered =>
        /\ OwnRowsNewestFirst
        /\ \A i, j \in 1..Len(res[1].body) :
               (/\ res[1].body[j].id < res[1].body[i].id
                /\ res[1].body[j].added_date < res[1].body[i].added_date) => i < j

\* a GET has answered with two rows added in different seconds
C5_Witness ==
    /\ GetAnswered
    /\ Len(res[1].body) = 2
    /\ res[1].body[1].added_date > res[1].body[2].added_date
    /\ res[1].body[1].id > res[1].body[2].id

\* C6: after a successful POST /api/wishlist/:userId the stored row (the one
\* a following GET returns) and the response carry rating 0 when the body had
\* no rating and notes '' when it had no notes, and the body's values otherwise.
C6_PostDefaults ==
    (req.handler = POST_WISHLIST /\ res[1].status = 200) =>
        LET b == req.body
            out == res[1].body
            rating == IF b.rating = Undefined THEN Num(0) ELSE b.rating
            notes == IF b.notes = Undefined THEN Text("") ELSE b.notes
        IN  /\ out.rating = rating
            /\ out.notes = notes
            /\ \E r \in RowsOf(req.userId) :
                   /\ r.id = out.id
                   /\ r.country_code = b.country_code
                   /\ r.rating = rating
                   /\ r.notes = notes

\* a POST without rating and notes has stored a row
C6_Witness ==
    /\ req.handler = POST_WISHLIST
    /\ res[1].status = 200
    /\ req.body.rating = Undefined
    /\ req.body.notes = Undefined
    /\ \E r \in wishlist : r.id = res[1].body.id /\ r.rating = Num(0) /\ r.notes = Text("")

\* C7: a PUT /api/wishlist/:userId/:countryCode on an existing item whose
\* statement succeeds answers {updated: 1} and changes that row's rating and
\* notes to the body's (SQL NULL for a field the body leaves out); the row's id,
\* country code, country name and added date, and every other row, stay as
\* they were, so a following GET shows exactly that.
C7_PutUpdatesOneRow ==
    [][ (/\ Handled(PUT_WISHLIST)
         /\ err' = NoErr
         /\ HasRow(wishlist, req'.userId, Text(req'.countryCode)))
            => /\ res' = <<Answer(200, [updated |-> 1])>>
               /\ Cardinality(wishlist') = Cardinality(wishlist)
               /\ \A r \in wishlist :
                      IF r.user_id = req'.userId /\ r.country_code = Text(req'.countryCode)
                        THEN [r EXCEPT
                                !.rating = IF req'.body.rating = Undefined THEN Null
                                           ELSE req'.body.rating,
                                !.notes = IF req'.body.notes = Undefined THEN Null
                                          ELSE req'.body.notes] \in wishlist'
                        ELSE r \in wishlist' ]_vars

\* a PUT has rewritten one of the user's two rows
C7_Witness ==
    /\ req.handler = PUT_WISHLIST
    /\ res = <<Answer(200, [updated |-> 1])>>
    /\ \E r1, r2 \in RowsOf(req.userId) :
           /\ r1.country_code = Text(req.countryCode)
           /\ r1.rating = req.body.rating
           /\ r1.notes = req.body.notes
           /\ r2.country_code # r1.country_code
           /\ r2.rating # r1.rating

\* C8: after a DELETE answered {deleted: 1} the pair has no row; a pair
\* without a row gets one only through a POST of that pair, so every GET until
\* then excludes the country; and a POST of a pair without a row is never
\* rejected as a duplicate: with a country name and no statement failure it is
\* answered 200 and stores the row.
C8_DeletedUntilPostedAgain ==
    [][ /\ (Handled(DELETE_WISHLIST) /\ res' = <<Answer(200, [deleted |-> 1])>>)
            => /\ HasRow(wishlist, req'.userId, Text(req'.countryCode))
               /\ ~HasRow(wishlist', req'.userId, Text(req'.countryCode))
        /\ \A u \in ReqUserIds, c \in Countries :
            (~HasRow(wishlist, u, Text(c)) /\ HasRow(wishlist', u, Text(c)))
                => /\ Handled(POST_WISHLIST)
                   /\ req'.userId = u
                   /\ req'.body.country_code = Text(c)
        /\ (Handled(POST_WISHLIST) /\ ~HasRow(wishlist, req'.userId, req'.body.country_code))
            => /\ err'.message # UniqueWishlistMessage
               /\ (err'.code # "SQLITE_IOERR" /\ req'.body.country_name # Undefined)
                    => /\ res'[1].status = 200
                       /\ HasRow(wishlist', req'.userId, req'.body.country_code) ]_vars

\* an existing item has been deleted
C8_Witness ==
    /\ req.handler = DELETE_WISHLIST
    /\ res = <<Answer(200, [deleted |-> 1])>>
    /\ ~HasRow(wishlist, req.userId, Text(req.countryCode))

\* the handlers that read, and those that write
ReadHandlers == {GET_WISHLIST, GET_USER}
WriteHandlers == {POST_WISHLIST, PUT_WISHLIST, DELETE_WISHLIST, POST_USER}

\* C9 as stated: every request is answered exactly once; a constraint failure
\* is answered 400 with the database's message, a connectivity failure is
\* answered 500, and no failure is answered with a success status.
C9_StatusByFailureKind ==
    (req # NoReq) =>
        /\ Len(res) = 1
        /\ (err.code = "SQLITE_CONSTRAINT") => res[1] = Answer(400, [error |-> err.message])
        /\ (err.code = "SQLITE_IOERR") => res[1].status = 500
        /\ (err # NoErr) => res[1].status >= 400

\* C9 amended: every request is answered exactly once; a failed statement is
\* answered with the database's message and a status fixed by the handler, not
\* by the kind of failure: 400 from the POST, PUT and DELETE handlers, 500 from
\* the two GET handlers; no failure is answered with a success body.
C9_StatusByHandler ==
    (req # NoReq) =>
        /\ Len(res) = 1
        /\ (err # NoErr /\ req.handler \in WriteHandlers)
                => res[1] = Answer(400, [error |-> err.message])
        /\ (err # NoErr /\ req.handler \in ReadHandlers)
                => res[1] = Answer(500, [error |-> err.message])
        /\ (err = NoErr) => res[1].status = 200

\* a write handler has answered a connectivity failure
C9_Witness ==
    /\ req.handler = POST_USER
    /\ err = IoErr
    /\ res = <<Answer(400, [error |-> IoErr.message])>>

DistinctUsers ==
    \A u1, u2 \in users :
        (u1.id = u2.id \/ u1.username = u2.username \/ u1.email = u2.email) => u1 = u2

\* C10: a successful POST /api/users adds one row whose id is the answered id,
\* greater than every id assigned before and so the id of no user that exists
\* or existed; a POST whose username or email is that of an existing user (the
\* seeded demo user included) is answered 400 and leaves the users table
\* unchanged; ids, usernames and emails stay pairwise distinct.
C10_UsersStayDistinct ==
    /\ []DistinctUsers
    /\ [][ Handled(POST_USER) =>
            /\ (\E u \in users : u.username = req'.body.username \/ u.email = req'.body.email)
                    => /\ res' = <<Answer(400, [error |-> err'.message])>>
                       /\ err'.code = "SQLITE_CONSTRAINT" \/ err' = IoErr
                       /\ users' = users
            /\ (res'[1].status = 200)
                    => \E n \in users' :
                           /\ users' = users \cup {n}
                           /\ n.id = res'[1].body.id
                           /\ n.id > userSeq
                           /\ \A u \in users : u.id # n.id /\ u.id <= userSeq ]_vars

\* a POST with a fresh username and the email of a created user has been rejected
C10_Witness ==
    /\ req.handler = POST_USER
    /\ res = <<Answer(400, [error |-> "SQLITE_CONSTRAINT: UNIQUE constraint failed: users.email"])>>
    /\ Cardinality(users) = 2
    /\ \E u \in users : u.id = 2 /\ u.email = req.body.email

\* C11: GET /api/users/:id, when its statement does not fail, is answered 200
\* with the one user row whose id is :id if there is one and with the empty
\* object if there is none; it changes neither table.
C11_GetUserRowOrEmpty ==
    [][ Handled(GET_USER) =>
            /\ UNCHANGED <<users, userSeq, wishlist, wishSeq>>
            /\ (err' = NoErr) =>
                   /\ Len(res') = 1
                   /\ res'[1].status = 200
                   /\ IF \E u \in users : u.id = req'.id
                        THEN /\ res'[1].body \in users
                             /\ res'[1].body.id = req'.id
                        ELSE res'[1].body = EmptyObject ]_vars

\* a GET of an id without a user row has been answered with the empty object
C11_Witness ==
    /\ req.handler = GET_USER
    /\ \A u \in users : u.id # req.id
    /\ res = <<Answer(200, EmptyObject)>>

WishlistWrites == {POST_WISHLIST, PUT_WISHLIST, DELETE_WISHLIST}

\* the rows of table t that user uid does not own
RowsOfOthers(t, uid) == { r \in t : r.user_id # uid }

\* C13: a POST, PUT or DELETE addressed to user id U leaves the rows owned by
\* every other user as they were, and the rows a GET for U answers with are all
\* owned by U, also when another user has a row for the same country code.
C13_OtherUsersUntouched ==
    /\ [][ (req'.handler \in WishlistWrites /\ clock' = clock)
                => RowsOfOthers(wishlist', req'.userId) = RowsOfOthers(wishlist, req'.userId) ]_vars
    /\ [](GetAnswered =>
            \A i \in 1..Len(res[1].body) : res[1].body[i].user_id = req.userId)

\* a PUT has rewritten a user's row while another user holds the same country
C13_Witness ==
    /\ req.handler = PUT_WISHLIST
    /\ res = <<Answer(200, [updated |-> 1])>>
    /\ \E r1, r2 \in wishlist :
           /\ r1.user_id = req.userId
           /\ r1.country_code = Text(req.countryCode)
           /\ r1.rating = req.body.rating
           /\ r2.user_id # req.userId
           /\ r2.country_code = r1.country_code
           /\ r2.rating # r1.rating

(* ------------------------- the page (CountriesApp) --------------------- *)
GET_COUNTRIES == "GET /api/countries"

Sections == {"search", "wishlist"}

\* the countries the external source knows
AllCountries == Countries

\* what the wishlist form sends: a new item, and an edit of an item
FormPostFields == <<Num(3), Text("n")>>
FormPutFields == <<Num(5), Text("m")>>

InFlight == BagCardinality(net)

\* fetch(...): one more request under way
Fetch(m) == net (+) SetToBag({m})

\* the answer m has reached its continuation, which may fetch again
Settle(m, more) == (net (-) SetToBag({m})) (+) more

CodesOf(wl) == { c \in Countries : \E i \in 1..Len(wl) : wl[i].country_code = Text(c) }

\* createCountryCard: isInWishlist = this.wishlist.some(item => item.country_code === country.cca2)
IsInWishlist(wl, c) == \E i \in 1..Len(wl) : wl[i].country_code = Text(c)

\* renderCountries(countries): one card a country, marked when it is in this.wishlist
RenderCountries(cs, wl) == [shown |-> cs, added |-> { c \in cs : IsInWishlist(wl, c) }]

LoadWishlistRequest == Request("loadWishlist", "GET /api/wishlist/:userId", "")

\* showSection(sectionName), from a .nav-btn click
ShowSection ==
    \E name \in Sections :
        /\ section' = name
        /\ IF name = "wishlist"
             THEN /\ InFlight < MaxInFlight
                  /\ net' = Fetch(LoadWishlistRequest)
                  /\ UNCHANGED cards
             ELSE IF name = "search" /\ countries = {}
                    THEN /\ InFlight < MaxInFlight
                         /\ net' = Fetch(Request("loadAllCountries", GET_COUNTRIES, ""))
                         /\ cards' = NoCards
                    ELSE UNCHANGED <<net, cards>>
        /\ lastCallback' = NoCallback
        /\ UNCHANGED <<appWishlist, countries>>
        /\ UNCHANGED <<users, userSeq, wishlist, wishSeq, clock, req, err, res>>

\* the sort-by change listener: renderCountries(this.countries) when countries are loaded
SortByChanged ==
    /\ countries # {}
    /\ cards' = RenderCountries(countries, appWishlist)
    /\ lastCallback' = NoCallback
    /\ UNCHANGED <<section, appWishlist, countries, net>>
    /\ UNCHANGED <<users, userSeq, wishlist, wishSeq, clock, req, err, res>>

\* showWishlistModal(code, name) from a card, the country modal or a wishlist
\* item, and then the form's submit: saveWishlistItem up to its await fetch
SubmitWishlistForm ==
    \E c \in cards.shown \cup CodesOf(appWishlist) :
        /\ InFlight < MaxInFlight
        /\ net' = Fetch(Request("saveWishlistItem",
                                IF IsInWishlist(appWishlist, c)
                                  THEN "PUT /api/wishlist/:userId/:countryCode"
                                  ELSE "POST /api/wishlist/:userId", c))
        /\ lastCallback' = NoCallback
        /\ UNCHANGED <<section, appWishlist, countries, cards>>
        /\ UNCHANGED <<users, userSeq, wishlist, wishSeq, clock, req, err, res>>

\* removeFromWishlist(code, name) from a marked card or a wishlist item, confirmed,
\* up to its await fetch
ClickRemove ==
    \E c \in cards.added \cup CodesOf(appWishlist) :
        /\ InFlight < MaxInFlight
        /\ net' = Fetch(Request("removeFromWishlist",
                                "DELETE /api/wishlist/:userId/:countryCode", c))
        /\ lastCallback' = NoCallback
        /\ UNCHANGED <<section, appWishlist, countries, cards>>
        /\ UNCHANGED <<users, userSeq, wishlist, wishSeq, clock, req, err, res>>

Answers == { m \in BagToSet(net) : m.dir = "answer" }
Requests == { m \in BagToSet(net) : m.dir = "request" }

Ran(m) == [fn |-> m.fn, handler |-> m.handler, code |-> m.code, ok |-> m.ok]

\* loadUserProfile after its awaits: if (user.id) { ...; this.loadWishlist() }
ProfileLoaded ==
    \E m \in Answers :
        /\ m.fn = "loadUserProfile"
        /\ net' = Settle(m, IF m.ok THEN SetToBag({LoadWishlistRequest}) ELSE EmptyBag)
        /\ lastCallback' = Ran(m)
        /\ UNCHANGED <<section, appWishlist, countries, cards>>
        /\ UNCHANGED <<users, userSeq, wishlist, wishSeq, clock, req, err, res>>

\* loadAllCountries after its await
CountriesLoaded ==
    \E m \in Answers :
        /\ m.fn = "loadAllCountries"
        /\ net' = Settle(m, EmptyBag)
        /\ IF m.ok
             THEN /\ countries' = AllCountries
                  /\ cards' = RenderCountries(AllCountries, appWishlist)
             ELSE /\ cards' = NoCards
                  /\ UNCHANGED countries
        /\ lastCallback' = Ran(m)
        /\ UNCHANGED <<section, appWishlist>>
        /\ UNCHANGED <<users, userSeq, wishlist, wishSeq, clock, req, err, res>>

\* loadWishlist after its awaits: this.wishlist = await response.json()
WishlistLoaded ==
    \E m \in Answers :
        /\ m.fn = "loadWishlist"
        /\ appWishlist' = m.rows
        /\ net' = Settle(m, EmptyBag)
        /\ lastCallback' = Ran(m)
        /\ UNCHANGED <<section, countries, cards>>
        /\ UNCHANGED <<users, userSeq, wishlist, wishSeq, clock, req, err, res>>

\* if (response.ok) { this.loadWishlist(); if (this.currentSection === 'search')
\* this.renderCountries(this.countries) }: loadWishlist returns at its first
\* await, so the cards are drawn from this.wishlist as it is now
ReloadAndRender(m) ==
    IF m.ok
      THEN /\ net' = Settle(m, SetToBag({LoadWishlistRequest}))
           /\ IF section = "search"
                THEN cards' = RenderCountries(countries, appWishlist)
                ELSE UNCHANGED cards
      ELSE /\ net' = Settle(m, EmptyBag)
           /\ UNCHANGED cards

\* saveWishlistItem after its await
SaveAnswered ==
    \E m \in Answers :
        /\ m.fn = "saveWishlistItem"
        /\ ReloadAndRender(m)
        /\ lastCallback' = Ran(m)
        /\ UNCHANGED <<section, appWishlist, countries>>
        /\ UNCHANGED <<users, userSeq, wishlist, wishSeq, clock, req, err, res>>

\* removeFromWishlist after its await
RemoveAnswered ==
    \E m \in Answers :
        /\ m.fn = "removeFromWishlist"
        /\ ReloadAndRender(m)
        /\ lastCallback' = Ran(m)
        /\ UNCHANGED <<section, appWishlist, countries>>
        /\ UNCHANGED <<users, userSeq, wishlist, wishSeq, clock, req, err, res>>

(* ---------------------- the server answering the page ------------------ *)
\* response.ok
Ok(status) == status >= 200 /\ status <= 299

FormPostBody(c) ==
    [country_code |-> Text(c), country_name |-> Text(CountryName(c)),
     rating |-> FormPostFields[1], notes |-> FormPostFields[2]]

FormPutBody == [rating |-> FormPutFields[1], notes |-> FormPutFields[2]]

\* the request as the router sees it; the page addresses this.currentUser.id
Routed(m) ==
    IF m.handler = GET_USER THEN [handler |-> GET_USER, id |-> DemoUser.id]
    ELSE IF m.handler = GET_WISHLIST THEN [handler |-> GET_WISHLIST, userId |-> DemoUser.id]
    ELSE IF m.handler = POST_WISHLIST
        THEN [handler |-> POST_WISHLIST, userId |-> DemoUser.id, body |-> FormPostBody(m.code)]
    ELSE IF m.handler = PUT_WISHLIST
        THEN [handler |-> PUT_WISHLIST, userId |-> DemoUser.id, countryCode |-> m.code,
              body |-> FormPutBody]
    ELSE [handler |-> DELETE_WISHLIST, userId |-> DemoUser.id, countryCode |-> m.code]

\* the answer to request m, as far as the page reads it
AnswerTo(m, status, body) ==
    Msg("answer", m.fn, m.handler, m.code,
        IF m.handler = GET_USER THEN body # EmptyObject ELSE Ok(status),
        IF m.handler = GET_WISHLIST THEN body ELSE <<>>)

\* a router handler takes a request of the page; its statement succeeds or is
\* refused by a constraint, the store itself does not fail
Serve ==
    \E m \in Requests :
        /\ m.handler # GET_COUNTRIES
        /\ \/ GetUser
           \/ GetWishlist
           \/ PostWishlist
           \/ PutWishlist
           \/ DeleteWishlist
        /\ req' = Routed(m)
        /\ err'.code # "SQLITE_IOERR"
        /\ net' = Settle(m, SetToBag({AnswerTo(m, res'[1].status, res'[1].body)}))
        /\ UNCHANGED <<section, appWishlist, countries, cards, lastCallback>>

\* app.get('/api/countries'): the external source answers, or the proxy answers 500
CountriesProxy ==
    \E m \in Requests, ok \in BOOLEAN :
        /\ m.handler = GET_COUNTRIES
        /\ net' = Settle(m, SetToBag({Msg("answer", m.fn, m.handler, "", ok, <<>>)}))
        /\ UNCHANGED <<section, appWishlist, countries, cards, lastCallback>>
        /\ UNCHANGED <<users, userSeq, wishlist, wishSeq, clock, req, err, res>>

\* the load-all-btn click listener: loadAllCountries()
LoadAllClicked ==
    /\ InFlight < MaxInFlight
    /\ net' = Fetch(Request("loadAllCountries", GET_COUNTRIES, ""))
    /\ cards' = NoCards
    /\ lastCallback' = NoCallback
    /\ UNCHANGED <<section, appWishlist, countries>>
    /\ UNCHANGED <<users, userSeq, wishlist, wishSeq, clock, req, err, res>>

\* one page, one user, and the server answering it
NextPage ==
    \/ ShowSection
    \/ SortByChanged
    \/ LoadAllClicked
    \/ SubmitWishlistForm
    \/ ClickRemove
    \/ ProfileLoaded
    \/ CountriesLoaded
    \/ WishlistLoaded
    \/ SaveAnswered
    \/ RemoveAnswered
    \/ Serve
    \/ CountriesProxy

SpecPage == Init /\ [][NextPage]_vars

PageTypeOK ==
    /\ section \in Sections
    /\ InFlight <= MaxInFlight
    /\ cards.added \subseteq cards.shown
    /\ cards.shown \subseteq countries

\* C12: when saveWishlistItem or removeFromWishlist has got an ok answer while
\* the search section is current, the card of the affected country, as
\* re-rendered by that continuation, is marked 'in wishlist' after a save and
\* unmarked after a removal.
C12_CardsShowTheChange ==
    (/\ lastCallback.fn \in {"saveWishlistItem", "removeFromWishlist"}
     /\ lastCallback.ok
     /\ section = "search"
     /\ lastCallback.code \in cards.shown)
        => (lastCallback.code \in cards.added <=> lastCallback.fn = "saveWishlistItem")

\* every request the page issued has been answered and its continuation has run
Quiescent == net = EmptyBag

\* C14: with one page, one user and no other writer, once every request has
\* been answered the page's wishlist holds exactly the rows the store holds
\* for the current user.
C14_PageWishlistIsStored ==
    Quiescent => { appWishlist[i] : i \in 1..Len(appWishlist) } = RowsOf(DemoUser.id)
====
